---------------------------- MODULE Spec2Model ----------------------------
(***************************************************************************)
(* Model of the bridge-and-deposit flow of better-aave:                    *)
(*   - the ExecuteModal component (the second, current definition in       *)
(*     src/src/modules/dashboard/lists/SupplyAssetsList/ExecuteModal.tsx,  *)
(*     lines 540-1191), and                                                *)
(*   - the useAaveDeposit hook (src/unnamed/part_000).                     *)
(*                                                                         *)
(* Strings are tuples of one-character strings, so that parsing and        *)
(* formatting are computed character by character.                         *)
(*                                                                         *)
(* One action is one JavaScript task: an event handler, a timer callback   *)
(* or the continuation of an awaited engine call, followed by the render   *)
(* React performs for the state it set and by the effects of that render.  *)
(***************************************************************************)
EXTENDS Integers, Sequences, FiniteSets, Bags, TLC

(***************************************************************************)
(* Bounds of the model.                                                    *)
(***************************************************************************)
\* engine simulate calls that may be outstanding at once
MaxSimInFlight == 2
\* engine execute calls that may be outstanding at once
MaxExecInFlight == 2
\* fragments joined into the message of a thrown Error
MaxFragments == 2
\* chains of a catalog, and tokens of a chain
MaxChains == 2
MaxTokens == 2
\* characters of an amount string converted on its own
MaxAmountLen == 4
\* the largest number of decimals of a token whose amounts are converted
MaxDecimals == 2

(***************************************************************************)
(* Characters, strings and JavaScript numbers.                             *)
(***************************************************************************)
\* null or undefined where a string is expected
NULL == <<"null">>

\* null or undefined where an object is expected
None == [none |-> TRUE]

DigitChars == <<"0", "1", "2", "3", "4", "5", "6", "7", "8", "9">>

IsDigit(c) == \E i \in 1..Len(DigitChars) : DigitChars[i] = c

DigitVal(c) == (CHOOSE i \in 1..Len(DigitChars) : DigitChars[i] = c) - 1

RECURSIVE Pow10(_)
Pow10(n) == IF n = 0 THEN 1 ELSE 10 * Pow10(n - 1)

\* the value of a string of digits read as a decimal integer ("" is 0)
RECURSIVE DigitsValue(_)
DigitsValue(s) ==
    IF Len(s) = 0 THEN 0
    ELSE 10 * DigitsValue(SubSeq(s, 1, Len(s) - 1)) + DigitVal(s[Len(s)])

\* the length of the longest prefix of s made of digits
RECURSIVE DigitPrefixLen(_)
DigitPrefixLen(s) ==
    IF Len(s) = 0 \/ ~IsDigit(s[1]) THEN 0 ELSE 1 + DigitPrefixLen(Tail(s))

\* A JavaScript number that is a finite non-negative decimal, num / 10^exp,
\* or NaN.  Every number the flow computes is exactly representable so.
NaN == [nan |-> TRUE, num |-> 0, exp |-> 0]

Dec(n, e) == [nan |-> FALSE, num |-> n, exp |-> e]

\* a > b on JavaScript numbers: false whenever either side is NaN
NumGt(a, b) ==
    /\ ~a.nan
    /\ ~b.nan
    /\ a.num * Pow10(b.exp) > b.num * Pow10(a.exp)

\* a <= b on JavaScript numbers: false whenever either side is NaN
NumLe(a, b) ==
    /\ ~a.nan
    /\ ~b.nan
    /\ a.num * Pow10(b.exp) <= b.num * Pow10(a.exp)

\* the number written by the first il digits of s, the point and the next
\* fl digits
DecimalPrefix(s, il, fl) ==
    IF il + fl = 0 THEN NaN
    ELSE Dec(DigitsValue(SubSeq(s, 1, il) \o SubSeq(s, il + 2, il + 1 + fl)), fl)

\* the number of digits that follow a point after the first il characters
FractionLen(s, il) ==
    IF Len(s) > il /\ s[il + 1] = "."
    THEN DigitPrefixLen(SubSeq(s, il + 2, Len(s)))
    ELSE 0

\* parseFloat(s): the longest prefix of s that is a decimal literal
ParseFloat(s) == DecimalPrefix(s, DigitPrefixLen(s), FractionLen(s, DigitPrefixLen(s)))

\* after il digits: nothing more, or a point and then digits only
IsDecimalFrom(s, il) ==
    \/ il = Len(s)
    \/ /\ s[il + 1] = "."
       /\ DigitPrefixLen(SubSeq(s, il + 2, Len(s))) = Len(s) - il - 1

\* /^\d*\.?\d*$/.test(s)
IsDecimalInput(s) == IsDecimalFrom(s, DigitPrefixLen(s))

\* Number(s): the whole string is a decimal literal, "" is 0
Number(s) ==
    IF Len(s) = 0 THEN Dec(0, 0)
    ELSE IF IsDecimalInput(s) THEN ParseFloat(s)
    ELSE NaN

\* x * 0.9
TimesNineTenths(x) == IF x.nan THEN NaN ELSE Dec(x.num * 9, x.exp + 1)

\* the decimal digits of a natural number, "0" for 0
RECURSIVE NatToString(_)
NatToString(n) ==
    IF n < 10 THEN <<DigitChars[n + 1]>>
    ELSE NatToString(n \div 10) \o <<DigitChars[(n % 10) + 1]>>

\* n written with exactly w digits (leading zeros)
RECURSIVE PadDigits(_, _)
PadDigits(n, w) ==
    IF w = 0 THEN <<>>
    ELSE PadDigits(n \div 10, w - 1) \o <<DigitChars[(n % 10) + 1]>>

\* a number without trailing fractional zeros
RECURSIVE Normalize(_)
Normalize(x) ==
    IF x.nan \/ x.exp = 0 \/ x.num % 10 # 0 THEN x
    ELSE Normalize(Dec(x.num \div 10, x.exp - 1))

\* the digits of a number that has no trailing fractional zeros
DecToString(n) ==
    IF n.nan THEN <<"N", "a", "N">>
    ELSE IF n.exp = 0 THEN NatToString(n.num)
    ELSE NatToString(n.num \div Pow10(n.exp)) \o <<".">>
         \o PadDigits(n.num % Pow10(n.exp), n.exp)

\* Number.prototype.toString() of a finite non-negative decimal
NumToString(x) == DecToString(Normalize(x))


(***************************************************************************)
(* Strings the program compares or searches.                               *)
(***************************************************************************)
EmptyString == <<>>

\* s.includes(sub)
Includes(s, sub) ==
    \E i \in 0..(Len(s) - Len(sub)) : SubSeq(s, i + 1, i + Len(sub)) = sub

UpperHex == <<"A", "B", "C", "D", "E", "F">>

LowerHex == <<"a", "b", "c", "d", "e", "f">>

\* the index of c among the upper-case letters, 0 if it is none of them
UpperIndex(c) ==
    IF \E k \in 1..Len(UpperHex) : UpperHex[k] = c
    THEN CHOOSE k \in 1..Len(UpperHex) : UpperHex[k] = c
    ELSE 0

LowerChar(c, k) == IF k = 0 THEN c ELSE LowerHex[k]

\* s.toLowerCase() on the characters of an address
ToLowerCase(s) == [i \in 1..Len(s) |-> LowerChar(s[i], UpperIndex(s[i]))]

(***************************************************************************)
(* parseError (part_000, lines 46-67).  A thrown value is an Error with a  *)
(* message, or something that is not an Error.                             *)
(***************************************************************************)
ErrorOf(msg) == [isError |-> TRUE, message |-> msg]

NotAnError == [isError |-> FALSE, message |-> EmptyString]

MsgRejected == <<"r", "e", "j", "e", "c", "t", "e", "d">>
MsgDenied == <<"d", "e", "n", "i", "e", "d">>
MsgErrUnknownField == <<"e", "r", "r", "U", "n", "k", "n", "o", "w", "n", "F", "i", "e", "l", "d">>
MsgTxParseError == <<"t", "x", " ", "p", "a", "r", "s", "e", " ", "e", "r", "r", "o", "r">>
MsgBroadcastFailed == <<"B", "r", "o", "a", "d", "c", "a", "s", "t", "i", "n", "g", " ", "t", "r", "a", "n", "s", "a", "c", "t", "i", "o", "n", " ", "f", "a", "i", "l", "e", "d">>
MsgInsufficient == <<"i", "n", "s", "u", "f", "f", "i", "c", "i", "e", "n", "t">>

TextRejected == <<"T", "r", "a", "n", "s", "a", "c", "t", "i", "o", "n", " ", "r", "e", "j", "e", "c", "t", "e", "d", " ", "b", "y", " ", "u", "s", "e", "r">>
TextSdkError == <<"S", "D", "K", " ", "e", "r", "r", "o", "r", " ", "-", " ", "c", "h", "e", "c", "k", " ", "b", "a", "l", "a", "n", "c", "e", "s", " ", "a", "n", "d", " ", "t", "r", "y", " ", "a", "g", "a", "i", "n">>
TextInsufficient == <<"I", "n", "s", "u", "f", "f", "i", "c", "i", "e", "n", "t", " ", "b", "a", "l", "a", "n", "c", "e">>
TextUnknown == <<"U", "n", "k", "n", "o", "w", "n", " ", "e", "r", "r", "o", "r", " ", "o", "c", "c", "u", "r", "r", "e", "d">>

\* Faulty variant of parseError: the SDK signatures are tested before the
\* reject signatures.
parseErrorEngineFirst(error) ==
    IF error.isError
    THEN IF \/ Includes(error.message, MsgErrUnknownField)
            \/ Includes(error.message, MsgTxParseError)
            \/ Includes(error.message, MsgBroadcastFailed)
         THEN [type |-> "SDK_ERROR", message |-> TextSdkError]
         ELSE IF Includes(error.message, MsgRejected) \/ Includes(error.message, MsgDenied)
         THEN [type |-> "REJECTED", message |-> TextRejected]
         ELSE IF Includes(error.message, MsgInsufficient)
         THEN [type |-> "INSUFFICIENT", message |-> TextInsufficient]
         ELSE [type |-> "GENERAL", message |-> error.message]
    ELSE [type |-> "UNKNOWN", message |-> TextUnknown]

\* Faulty variant of parseError: an Error with no signature gets the fixed
\* text instead of its own message.
parseErrorFixedText(error) ==
    IF error.isError
    THEN IF Includes(error.message, MsgRejected) \/ Includes(error.message, MsgDenied)
         THEN [type |-> "REJECTED", message |-> TextRejected]
         ELSE IF \/ Includes(error.message, MsgErrUnknownField)
                 \/ Includes(error.message, MsgTxParseError)
                 \/ Includes(error.message, MsgBroadcastFailed)
         THEN [type |-> "SDK_ERROR", message |-> TextSdkError]
         ELSE IF Includes(error.message, MsgInsufficient)
         THEN [type |-> "INSUFFICIENT", message |-> TextInsufficient]
         ELSE [type |-> "GENERAL", message |-> TextUnknown]
    ELSE [type |-> "UNKNOWN", message |-> TextUnknown]

parseError(error) ==
    IF error.isError
    THEN IF Includes(error.message, MsgRejected) \/ Includes(error.message, MsgDenied)
         THEN [type |-> "REJECTED", message |-> TextRejected]
         ELSE IF \/ Includes(error.message, MsgErrUnknownField)
                 \/ Includes(error.message, MsgTxParseError)
                 \/ Includes(error.message, MsgBroadcastFailed)
         THEN [type |-> "SDK_ERROR", message |-> TextSdkError]
         ELSE IF Includes(error.message, MsgInsufficient)
         THEN [type |-> "INSUFFICIENT", message |-> TextInsufficient]
         ELSE [type |-> "GENERAL", message |-> error.message]
    ELSE [type |-> "UNKNOWN", message |-> TextUnknown]

\* the errors the hook itself throws
ErrCatalogNotLoaded == ErrorOf(<<"S", "u", "p", "p", "o", "r", "t", "e", "d", " ", "c", "h", "a", "i", "n", "s", " ", "a", "n", "d", " ", "t", "o", "k", "e", "n", "s", " ", "n", "o", "t", " ", "l", "o", "a", "d", "e", "d">>)
ErrTokenNotFound == ErrorOf(<<"T", "o", "k", "e", "n", " ", "n", "o", "t", " ", "f", "o", "u", "n", "d", " ", "f", "o", "r", " ", "a", "d", "d", "r", "e", "s", "s">>)
ErrWalletNotConnected == ErrorOf(<<"W", "a", "l", "l", "e", "t", " ", "n", "o", "t", " ", "c", "o", "n", "n", "e", "c", "t", "e", "d">>)
ErrInvalidDecimal == ErrorOf(<<"I", "n", "v", "a", "l", "i", "d", " ", "d", "e", "c", "i", "m", "a", "l", " ", "n", "u", "m", "b", "e", "r">>)

\* what the engine may throw
ErrUserRejected == ErrorOf(<<"u", "s", "e", "r", " ", "r", "e", "j", "e", "c", "t", "e", "d">>)


(***************************************************************************)
(* The component's props and the providers' values.                        *)
(***************************************************************************)
\* props.underlyingAsset: the asset's address, in checksum (mixed) case
underlyingAsset == <<"0", "x", "A", "b">>

\* props.currentMarket
currentMarket == "proto_base_v3"

\* props.walletBalance
walletBalance == <<"1">>

\* useAccount().address of a connected wallet
WalletAddress == <<"0", "x", "e", "e">>

\* marketsData[market].addresses.LENDING_POOL
LendingPool(market) == <<"0", "x", "p", "o", "o", "l">>

\* useNexus().supportedChainsAndTokens once loaded: chains in order, each
\* with its tokens in order
SupportedChains == [chains |->
    << [id |-> 10,
        tokens |-> << [contractAddress |-> <<"0", "x", "c", "d">>,
                       symbol |-> "USDT", name |-> "Tether USD", decimals |-> 6] >>],
       [id |-> 8453,
        tokens |-> << [contractAddress |-> <<"0", "x", "c", "d">>,
                       symbol |-> "USDT", name |-> "Tether USD", decimals |-> 6],
                      [contractAddress |-> <<"0", "x", "a", "b">>,
                       symbol |-> "USDC", name |-> "USD Coin", decimals |-> 6] >>] >>]

\* CHAIN_METADATA[chainId].nativeCurrency
NativeCurrency(chainId) == [symbol |-> "ETH", decimals |-> 18]

(***************************************************************************)
(* A call that may throw returns [ok |-> TRUE, value |-> v] or             *)
(* [ok |-> FALSE, error |-> e].                                            *)
(***************************************************************************)
Return(v) == [ok |-> TRUE, value |-> v]

Throw(e) == [ok |-> FALSE, error |-> e]

\* the least index of a set of indices, 0 if it is empty
FirstIndex(S) == IF S = {} THEN 0 ELSE CHOOSE i \in S : \A j \in S : i <= j

\* Faulty variant of FindToken: the addresses are compared as spelt.
FindTokenCaseSensitive(tokens, addr) ==
    FirstIndex({i \in 1..Len(tokens) : tokens[i].contractAddress = addr})

\* chain.tokens.find: the index of the first token with the address, 0 if none
FindToken(tokens, addr) ==
    FirstIndex({i \in 1..Len(tokens) :
                   ToLowerCase(tokens[i].contractAddress) = ToLowerCase(addr)})

\* lines 95-97: the chain and its first token with the address
ChainAndToken(chain, addr) ==
    Return([chain |-> chain, token |-> chain.tokens[FindToken(chain.tokens, addr)]])

\* lines 91-100: c is the first chain with a matching token, 0 if none
FirstChainWithToken(chains, c, addr) ==
    IF c = 0 THEN Throw(ErrTokenNotFound) ELSE ChainAndToken(chains[c], addr)

findTokenWithChain(catalog, addr) ==
    IF catalog = None THEN Throw(ErrCatalogNotLoaded)
    ELSE FirstChainWithToken(catalog.chains,
             FirstIndex({c \in 1..Len(catalog.chains) :
                            FindToken(catalog.chains[c].tokens, addr) # 0}),
             addr)

\* the string without its trailing zeros: fraction.replace(/(0+)$/, '')
RECURSIVE TrimTrailingZeros(_)
TrimTrailingZeros(s) ==
    IF Len(s) > 0 /\ s[Len(s)] = "0"
    THEN TrimTrailingZeros(SubSeq(s, 1, Len(s) - 1))
    ELSE s

\* Faulty variant of PadEndZeros: the fraction is not padded.
PadEndZerosNot(s, w) == s

\* s.padEnd(w, '0')
RECURSIVE PadEndZeros(_, _)
PadEndZeros(s, w) == IF Len(s) >= w THEN s ELSE PadEndZeros(s \o <<"0">>, w)

\* Math.round(Number(`${unit}.${right}`)) for a digit and a digit string
RoundUnit(unit, right) ==
    DigitVal(unit) + (IF Len(right) > 0 /\ DigitVal(right[1]) >= 5 THEN 1 ELSE 0)

\* the digits kept before the rounded one, and the rounded one, as one
\* number; a rounded 10 carries into them (and past them into the integer)
RoundedFraction(left, rounded) ==
    IF rounded > 9 THEN (DigitsValue(left) + 1) * 10
    ELSE DigitsValue(left) * 10 + rounded

\* viem's parseUnits from the integer part and the fraction digits (without
\* trailing zeros): a fraction longer than decimals is rounded at its last
\* kept digit
UnitsOf(int, fraction, decimals) ==
    IF decimals = 0
    THEN int + (IF Len(fraction) > 0 /\ DigitVal(fraction[1]) >= 5 THEN 1 ELSE 0)
    ELSE IF Len(fraction) > decimals
    THEN int * Pow10(decimals)
         + RoundedFraction(SubSeq(fraction, 1, decimals - 1),
                           RoundUnit(fraction[decimals],
                                     SubSeq(fraction, decimals + 1, Len(fraction))))
    ELSE int * Pow10(decimals) + DigitsValue(PadEndZeros(fraction, decimals))

\* value.split('.') after il integer digits: the fraction is '0' without a point
FractionOf(value, il) ==
    IF il = Len(value) THEN <<"0">> ELSE SubSeq(value, il + 2, Len(value))

\* viem's parseUnits(value, decimals) on a value without a sign
parseUnits(value, decimals) ==
    IF ~IsDecimalInput(value) THEN Throw(ErrInvalidDecimal)
    ELSE Return(UnitsOf(DigitsValue(SubSeq(value, 1, DigitPrefixLen(value))),
                        TrimTrailingZeros(FractionOf(value, DigitPrefixLen(value))),
                        decimals))

\* encodeFunctionData({abi: AAVE_POOL_ABI, functionName: 'supply', args})
encodeFunctionData(functionName, args) == [functionName |-> functionName, args |-> args]

\* Faulty variant of ExecuteSpec: the approval is given to the asset's
\* contract instead of the pool.
ExecuteSpecApprovingAsset(token, amountWei, walletAddr, assetAddress, market) ==
    [to |-> LendingPool(market),
     data |-> encodeFunctionData("supply", <<assetAddress, amountWei, walletAddr, 0>>),
     value |-> 0,
     tokenApproval |-> [token |-> token.symbol,
                        amount |-> amountWei,
                        spender |-> assetAddress]]

\* lines 111-124: the execute spec for the resolved token and base-unit amount
ExecuteSpec(token, amountWei, walletAddr, assetAddress, market) ==
    [to |-> LendingPool(market),
     data |-> encodeFunctionData("supply", <<assetAddress, amountWei, walletAddr, 0>>),
     value |-> 0,
     tokenApproval |-> [token |-> token.symbol,
                        amount |-> amountWei,
                        spender |-> LendingPool(market)]]

\* lines 109-124, with the outcome of parseUnits
BuildWithAmount(token, amountWei, walletAddr, assetAddress, market) ==
    IF ~amountWei.ok THEN amountWei
    ELSE Return(ExecuteSpec(token, amountWei.value, walletAddr, assetAddress, market))

\* lines 107-124, with the outcome of findTokenWithChain
BuildWithToken(tokenDeets, walletAddr, depositAmount, assetAddress, market) ==
    IF ~tokenDeets.ok THEN tokenDeets
    ELSE BuildWithAmount(tokenDeets.value.token,
                         parseUnits(depositAmount, tokenDeets.value.token.decimals),
                         walletAddr, assetAddress, market)

\* Faulty variant of buildExecuteParams: the wallet is not checked.
buildExecuteParamsAnyWallet(walletAddr, catalog, depositAmount, assetAddress, market) ==
    BuildWithToken(findTokenWithChain(catalog, assetAddress),
                   walletAddr, depositAmount, assetAddress, market)

buildExecuteParams(walletAddr, catalog, depositAmount, assetAddress, market) ==
    IF walletAddr = NULL THEN Throw(ErrWalletNotConnected)
    ELSE BuildWithToken(findTokenWithChain(catalog, assetAddress),
                        walletAddr, depositAmount, assetAddress, market)


(***************************************************************************)
(* What the engine may answer.                                             *)
(***************************************************************************)
TxHash == <<"0", "x", "h", "a", "s", "h">>

ExplorerUrl == <<"u", "r", "l">>

\* a JavaScript string used as a condition
Truthy(str) == str # NULL /\ str # EmptyString

\* the results of nexusSDK.simulateBridgeAndExecute: with and without a
\* bridging leg, and without an execute simulation
SimResults ==
    { [executeSimulation |-> [gasFee |-> 4],
       bridgeSimulation  |-> [intent |-> [fees |-> [total |-> 3], sources |-> <<10>>]]],
      [executeSimulation |-> [gasFee |-> 4],
       bridgeSimulation  |-> None],
      [executeSimulation |-> None,
       bridgeSimulation  |-> None] }

\* the results of nexusSDK.bridgeAndExecute
ExecResults ==
    { [executeTransactionHash |-> TxHash, executeExplorerUrl |-> ExplorerUrl],
      [executeTransactionHash |-> TxHash, executeExplorerUrl |-> NULL],
      [executeTransactionHash |-> NULL,   executeExplorerUrl |-> NULL] }

\* the values an engine call may throw
EngineThrows == {ErrUserRejected, NotAnError}

SimResponses == {Return(r) : r \in SimResults} \cup {Throw(ErrUserRejected)}

ExecResponses == {Return(r) : r \in ExecResults} \cup {Throw(e) : e \in EngineThrows}

\* useNexus().getFiatValue(quantity, symbol)
getFiatValue(quantity, symbol) == quantity * (IF symbol = "ETH" THEN 2 ELSE 1)

\* what the user may put in the amount field: each is the whole new text
InputValues ==
    { EmptyString, <<"0">>, <<".">>, <<"1">>, <<"1", "x">> }

(***************************************************************************)
(* State.                                                                  *)
(***************************************************************************)
VARIABLES
    \* useNexus() and useAccount(): fixed during a run
    nexusSDK, address, supportedChainsAndTokens,
    \* ExecuteModal: useState
    isOpen, amount, successData, isDebouncing,
    \* ExecuteModal: useRef
    amountRef, timerRef, prevSimulationRef,
    \* useAaveDeposit: useState
    isLoading, simulation, isSimulating, multiStepResult,
    \* the timers set and not yet expired or cleared
    timers,
    \* the engine calls awaited: simulateBridgeAndExecute (a bag: any of them
    \* may be answered next) and bridgeAndExecute (in the order made)
    simInFlight, execInFlight,
    \* history: the simulateDeposit calls made since the amount last changed
    simCallLog,
    \* history: the last change of amount (typed, Max, or the reset on close)
    \* replaced a value whose timer was pending
    superseded,
    \* history: what executeDeposit returned to handleConfirmDeposit in the
    \* step just taken, with the engine's answer it came from; None if the
    \* step returned from no executeDeposit
    returned,
    \* history: what simulateDeposit returned in the step just taken (true or
    \* false), with the engine's answer it came from; None if no
    \* simulateDeposit returned in the step
    simReturned,
    \* history: the amounts whose simulation completed with an
    \* executeSimulation while the flow was open, since it was opened;
    \* NotRecorded under a specification that does not read it
    simulatedOk,
    \* a function of the hook applied on its own: the application and, once
    \* it has run, what it returned or threw (both None in the flow)
    applied, outcome

providers == <<nexusSDK, address, supportedChainsAndTokens>>

vars == <<nexusSDK, address, supportedChainsAndTokens,
          isOpen, amount, successData, isDebouncing,
          amountRef, timerRef, prevSimulationRef,
          isLoading, simulation, isSimulating, multiStepResult,
          timers, simInFlight, execInFlight,
          simCallLog, superseded, returned, simReturned, simulatedOk,
          applied, outcome>>

\* the variables of a function applied on its own
calc == <<applied, outcome>>

\* the value of a history that is not recorded
NotRecorded == {NULL}

\* the history h becomes v, if it is recorded
Recorded(h, v) == IF h = NotRecorded THEN h ELSE v

FlowInit ==
    /\ nexusSDK \in BOOLEAN
    /\ address \in {NULL, WalletAddress}
    /\ supportedChainsAndTokens \in {None, SupportedChains}
    /\ isOpen = FALSE
    /\ amount = EmptyString
    /\ successData = None
    /\ isDebouncing = FALSE
    /\ amountRef = EmptyString
    /\ timerRef = 0
    /\ prevSimulationRef = NULL
    /\ isLoading = FALSE
    /\ simulation = None
    /\ isSimulating = FALSE
    /\ multiStepResult = None
    /\ timers = {}
    /\ simInFlight = EmptyBag
    /\ execInFlight = <<>>
    /\ simCallLog = <<>>
    /\ superseded = FALSE
    /\ returned = None
    /\ simReturned = None

\* the state after the component mounted, closed
Init ==
    /\ FlowInit
    /\ simulatedOk = NotRecorded
    /\ applied = None
    /\ outcome = None

\* the same, with the history of completed simulations recorded
InitRecording ==
    /\ FlowInit
    /\ simulatedOk = {}
    /\ applied = None
    /\ outcome = None


(***************************************************************************)
(* Timers.  A pending timer is its handle and what its callback closed     *)
(* over: the amount and isOpen of the render that set it (simulateDeposit  *)
(* of that render closes over the same amount as depositAmount).           *)
(***************************************************************************)
\* Faulty variant of clearTimeout: the timer is left pending.
clearTimeoutLeavesTimer(ts, handle) == ts

\* clearTimeout(handle)
clearTimeout(ts, handle) == {t \in ts : t.id # handle}

\* the handle setTimeout returns: one no pending timer has
NewHandle(ts) ==
    CHOOSE h \in 1..(Cardinality(ts) + 1) :
        /\ \A t \in ts : t.id # h
        /\ \A g \in 1..(h - 1) : \E t \in ts : t.id = g

\* if (timerRef.current) clearTimeout(timerRef.current)
ClearIfSet(ts, ref) == IF ref # 0 THEN clearTimeout(ts, ref) ELSE ts

(***************************************************************************)
(* The effects of a render.  st holds what they read and write:            *)
(* [timers, timerRef, prevSimulationRef, isDebouncing].                    *)
(***************************************************************************)
\* lines 598-610: the timer is set, after the one timerRef holds is cleared
ArmTimer(open, amt, st, cleared) ==
    [st EXCEPT !.isDebouncing = TRUE,
               !.timers = cleared \cup
                   {[id |-> NewHandle(cleared), amount |-> amt, isOpen |-> open]},
               !.timerRef = NewHandle(cleared)]

\* debouncedSimulation (ExecuteModal.tsx, lines 596-612) of a render with
\* this isOpen and amount
debouncedSimulation(open, amt, st) ==
    IF amt # EmptyString /\ amt # <<"0">> /\ st.prevSimulationRef # amt
    THEN ArmTimer(open, amt, st, ClearIfSet(st.timers, st.timerRef))
    ELSE st

\* lines 614-627: simulateDeposit, hence debouncedSimulation, is a new
\* function in every render, so every render runs the cleanup of the
\* previous one and then debouncedSimulation
DebounceEffect(open, amt, st) ==
    debouncedSimulation(open, amt,
        [st EXCEPT !.timers = ClearIfSet(st.timers, st.timerRef)])

\* lines 629-639: runs when isOpen changed
OpenEffect(wasOpen, open, st) ==
    IF wasOpen # open /\ ~open
    THEN [st EXCEPT !.timers = ClearIfSet(st.timers, st.timerRef),
                    !.timerRef = 0,
                    !.prevSimulationRef = NULL,
                    !.isDebouncing = FALSE]
    ELSE st

\* the refs and state after the effects, as the next state
RenderTo(e, amt) ==
    /\ amountRef' = amt
    /\ timers' = e.timers
    /\ timerRef' = e.timerRef
    /\ prevSimulationRef' = e.prevSimulationRef
    /\ isDebouncing' = e.isDebouncing

\* The render after a task and its effects, in the order of declaration
\* (lines 592-594 set amountRef).  The effects set isDebouncing, which
\* renders again; running them a second time changes nothing more.
Render(wasOpen, open, amt, st) ==
    RenderTo(OpenEffect(wasOpen, open, DebounceEffect(open, amt, st)), amt)

\* the refs and state of the current state, as the effects take them
Refs ==
    [timers |-> timers, timerRef |-> timerRef,
     prevSimulationRef |-> prevSimulationRef, isDebouncing |-> isDebouncing]

(***************************************************************************)
(* The modal's handlers.                                                   *)
(***************************************************************************)
\* the form (amount field, Max, confirm button) is rendered
FormShown == isOpen /\ successData = None

\* line 781: the amount the done screen shows
successAmountShown == amount

\* Faulty variant of SetAmount: simulateDeposit is called for the new value
\* at once, without the debounce timer.
SetAmountSimulatesAtOnce(value) ==
    /\ amount' = value
    /\ simCallLog' = Append(IF value = amount THEN simCallLog ELSE <<>>, value)
    /\ superseded' = IF value = amount THEN superseded ELSE timers # {}
    /\ returned' = None
    /\ simReturned' = None
    /\ Render(isOpen, isOpen, value, Refs)
    /\ UNCHANGED <<providers, isOpen, successData, isLoading, simulation,
                   isSimulating, multiStepResult, simInFlight, execInFlight,
                   simulatedOk, calc>>

\* setAmount(value) and the render it causes
SetAmount(value) ==
    /\ amount' = value
    /\ simCallLog' = IF value = amount THEN simCallLog ELSE <<>>
    /\ superseded' = IF value = amount THEN superseded ELSE timers # {}
    /\ returned' = None
    /\ simReturned' = None
    /\ Render(isOpen, isOpen, value, Refs)
    /\ UNCHANGED <<providers, isOpen, successData, isLoading, simulation,
                   isSimulating, multiStepResult, simInFlight, execInFlight,
                   simulatedOk, calc>>

\* lines 641-645
handleChange(value) ==
    /\ FormShown
    /\ IF value = EmptyString \/ IsDecimalInput(value)
       THEN SetAmount(value)
       ELSE /\ returned' = None
            /\ simReturned' = None
            /\ UNCHANGED <<providers, isOpen, amount, successData, isDebouncing,
                           amountRef, timerRef, prevSimulationRef, isLoading,
                           simulation, isSimulating, multiStepResult, timers,
                           simInFlight, execInFlight, simCallLog, superseded,
                           simulatedOk, calc>>

\* lines 647-649
handleSetMax ==
    /\ FormShown
    /\ SetAmount(NumToString(TimesNineTenths(Number(walletBalance))))

\* lines 651-656; the Supply button is behind the modal while it is open
handleOpen ==
    /\ ~isOpen
    /\ isOpen' = TRUE
    /\ amount' = EmptyString
    /\ simCallLog' = IF amount = EmptyString THEN simCallLog ELSE <<>>
    /\ superseded' = IF amount = EmptyString THEN superseded ELSE timers # {}
    /\ returned' = None
    /\ simReturned' = None
    /\ simulatedOk' = Recorded(simulatedOk, {})
    /\ Render(isOpen, TRUE, EmptyString, Refs)
    /\ UNCHANGED <<providers, successData, isLoading, simulation, isSimulating,
                   multiStepResult, simInFlight, execInFlight, calc>>

\* the execute calls awaited, marked as outliving the flow that made them
MarkClosed(calls) == [i \in 1..Len(calls) |-> [calls[i] EXCEPT !.closed = TRUE]]

\* lines 658-669
handleClose ==
    /\ isOpen
    /\ isOpen' = FALSE
    /\ amount' = EmptyString
    /\ successData' = None
    /\ simCallLog' = IF amount = EmptyString THEN simCallLog ELSE <<>>
    /\ superseded' = IF amount = EmptyString THEN superseded ELSE timers # {}
    /\ execInFlight' = MarkClosed(execInFlight)
    /\ returned' = None
    /\ simReturned' = None
    /\ Render(isOpen, FALSE, EmptyString,
              [timers |-> ClearIfSet(timers, timerRef),
               timerRef |-> timerRef,
               prevSimulationRef |-> NULL,
               isDebouncing |-> FALSE])
    /\ simulatedOk' = Recorded(simulatedOk, {})
    /\ UNCHANGED <<providers, isLoading, simulation, isSimulating,
                   multiStepResult, simInFlight, calc>>


(***************************************************************************)
(* useAaveDeposit: simulateDeposit (part_000, lines 127-201).              *)
(***************************************************************************)
\* lines 138-146, with the resolved chain and token
SimulateCallParams(tokenDeets, built, amountWei) ==
    IF ~built.ok THEN built
    ELSE IF ~amountWei.ok THEN amountWei
    ELSE Return([token     |-> tokenDeets.token.symbol,
                 amount    |-> amountWei.value,
                 toChainId |-> tokenDeets.chain.id,
                 execute   |-> built.value])

\* lines 137-146, with the outcome of findTokenWithChain
SimulateWithToken(tokenDeets, walletAddr, catalog, depositAmount, assetAddress, market) ==
    IF ~tokenDeets.ok THEN tokenDeets
    ELSE SimulateCallParams(tokenDeets.value,
             buildExecuteParams(walletAddr, catalog, depositAmount, assetAddress, market),
             parseUnits(depositAmount, tokenDeets.value.token.decimals))

\* lines 137-146: the params of the simulate call, or what building throws
simulateParams(walletAddr, catalog, depositAmount, assetAddress, market) ==
    SimulateWithToken(findTokenWithChain(catalog, assetAddress),
                      walletAddr, catalog, depositAmount, assetAddress, market)

\* Faulty variant of SimulateCall: without the finally block, isSimulating
\* stays set when building the params throws.
SimulateCallKeepsFlag(depositAmount, params) ==
    IF params.ok
    THEN [flag |-> TRUE,
          call |-> [depositAmount |-> depositAmount, params |-> params.value]]
    ELSE [flag |-> TRUE, call |-> None]

\* lines 133-148, with the params or what building them threw
SimulateCall(depositAmount, params) ==
    IF params.ok
    THEN [flag |-> TRUE,
          call |-> [depositAmount |-> depositAmount, params |-> params.value]]
    \* catch, finally: setIsSimulating(false)
    ELSE [flag |-> FALSE, call |-> None]

\* lines 128-148: simulateDeposit up to its await.  flag is isSimulating
\* when it suspends or returns; call is the engine call awaited, if any.
simulateDepositBegin(depositAmount) ==
    IF ~nexusSDK \/ address = NULL
    THEN [flag |-> isSimulating, call |-> None]
    ELSE SimulateCall(depositAmount,
             simulateParams(address, supportedChainsAndTokens, depositAmount,
                            underlyingAsset, currentMarket))

\* lines 165-188, with the fees in USD and the native currency
Summary(call, result, bridgeUsd, gasUsd, native) ==
    [bridgeFee         |-> bridgeUsd,
     executionGas      |-> [quantity |-> result.executeSimulation.gasFee,
                            symbol |-> native.symbol],
     totalCost         |-> NatToString(bridgeUsd + gasUsd),
     gasUsd            |-> gasUsd,
     destinationAmount |-> call.depositAmount,
     simulation        |-> result]

\* Faulty variant of SummaryWithToken: a result without a bridging leg is
\* charged the bridge fee of one token.
SummaryWithTokenFlatBridgeFee(call, result, tokenDeets, native) ==
    Summary(call, result,
            getFiatValue(IF result.bridgeSimulation # None
                         THEN result.bridgeSimulation.intent.fees.total
                         ELSE 1,
                         tokenDeets.token.name),
            getFiatValue(result.executeSimulation.gasFee, native.symbol),
            native)

\* lines 151-188, with the resolved chain and token
SummaryWithToken(call, result, tokenDeets, native) ==
    Summary(call, result,
            IF result.bridgeSimulation # None
            THEN getFiatValue(result.bridgeSimulation.intent.fees.total,
                              tokenDeets.token.name)
            ELSE 0,
            getFiatValue(result.executeSimulation.gasFee, native.symbol),
            native)

\* line 151
NativeOf(tokenDeets) == NativeCurrency(tokenDeets.chain.id)

\* lines 151-188: the summary setSimulation receives; tokenDeets is the one
\* line 137 resolved
simulationSummary(call, result) ==
    SummaryWithToken(call, result,
        findTokenWithChain(supportedChainsAndTokens, underlyingAsset).value,
        NativeOf(findTokenWithChain(supportedChainsAndTokens, underlyingAsset).value))

\* lines 149-191, with the engine's result
SimulateApply(call, result) ==
    [multiStepResult |-> result,
     simulation      |-> IF result.executeSimulation = None
                         THEN simulation
                         ELSE simulationSummary(call, result),
     isSimulating    |-> FALSE]

\* Faulty variant of simulateDepositEnd: without the finally block,
\* isSimulating is reset only on a normal return of the engine.
simulateDepositEndWithoutFinally(call, response) ==
    IF response.ok
    THEN SimulateApply(call,
             [executeSimulation |-> response.value.executeSimulation,
              bridgeSimulation  |-> response.value.bridgeSimulation,
              launchedFor       |-> call.depositAmount])
    ELSE [multiStepResult |-> multiStepResult,
          simulation      |-> simulation,
          isSimulating    |-> isSimulating]

\* lines 148-200: simulateDeposit from its await on, as the new values of
\* multiStepResult, simulation and isSimulating
simulateDepositEnd(call, response) ==
    IF response.ok
    THEN SimulateApply(call,
             [executeSimulation |-> response.value.executeSimulation,
              bridgeSimulation  |-> response.value.bridgeSimulation,
              \* which call the engine answered
              launchedFor       |-> call.depositAmount])
    ELSE [multiStepResult |-> multiStepResult,
          simulation      |-> simulation,
          isSimulating    |-> FALSE]

(***************************************************************************)
(* The debounce timer's callback (ExecuteModal.tsx, lines 604-610).        *)
(***************************************************************************)
\* line 605
TimerCallbackRuns(t) == t.isOpen /\ amountRef = t.amount

\* Faulty variant of the callback: the simulated amount is not recorded in
\* prevSimulationRef.
timerCallbackWithoutMark(t, st) == [st EXCEPT !.isDebouncing = FALSE]

\* lines 607-608, on the refs and state the effects read
timerCallback(t, st) ==
    [st EXCEPT !.prevSimulationRef = t.amount, !.isDebouncing = FALSE]

\* lines 605-609: the callback calls simulateDeposit, which ran to begun
CallbackBody(t, begun, left) ==
    /\ begun.call # None => BagCardinality(simInFlight) < MaxSimInFlight
    /\ isSimulating' = begun.flag
    /\ simInFlight' = IF begun.call = None THEN simInFlight
                      ELSE simInFlight (+) SetToBag({begun.call})
    /\ simCallLog' = Append(simCallLog, t.amount)
    \* lines 130, 197: simulateDeposit returned false without awaiting
    /\ simReturned' = IF begun.call = None
                      THEN [engine |-> None, value |-> FALSE]
                      ELSE None
    /\ Render(isOpen, isOpen, amount, timerCallback(t, left))

\* lines 604-610, with the refs after the timer left the pending ones
TimerFires(t, left) ==
    IF TimerCallbackRuns(t)
    THEN CallbackBody(t, simulateDepositBegin(t.amount), left)
    ELSE /\ UNCHANGED <<isSimulating, simInFlight, simCallLog>>
         /\ simReturned' = None
         /\ Render(isOpen, isOpen, amount, left)

\* the 400 ms of a pending timer have passed
TimerExpires(t) ==
    /\ t \in timers
    /\ TimerFires(t, [Refs EXCEPT !.timers = timers \ {t}])
    /\ returned' = None
    /\ UNCHANGED <<providers, isOpen, amount, successData, isLoading, simulation,
                   multiStepResult, execInFlight, superseded, simulatedOk, calc>>

\* the sequence without its i-th element
RemoveAt(seq, i) == SubSeq(seq, 1, i - 1) \o SubSeq(seq, i + 1, Len(seq))

\* lines 155-159, 191, 197: what simulateDeposit returns after its await
simulateDepositReturn(response) ==
    response.ok /\ response.value.executeSimulation # None

\* the state setters of lines 149-199 take effect
SimulateResumes(end) ==
    /\ multiStepResult' = end.multiStepResult
    /\ simulation' = end.simulation
    /\ isSimulating' = end.isSimulating

\* the engine answers a simulate call and simulateDeposit resumes
SimulateSettles(call, response) ==
    /\ BagIn(call, simInFlight)
    /\ SimulateResumes(simulateDepositEnd(call, response))
    /\ simInFlight' = simInFlight (-) SetToBag({call})
    /\ returned' = None
    /\ simReturned' = [engine |-> response, value |-> simulateDepositReturn(response)]
    /\ Render(isOpen, isOpen, amount, Refs)
    /\ simulatedOk' = IF isOpen /\ response.ok
                          /\ response.value.executeSimulation # None
                       THEN Recorded(simulatedOk, simulatedOk \cup {call.depositAmount})
                       ELSE simulatedOk
    /\ UNCHANGED <<providers, isOpen, amount, successData, isLoading,
                   execInFlight, simCallLog, superseded, calc>>

(***************************************************************************)
(* useAaveDeposit: executeDeposit (part_000, lines 203-259), and the       *)
(* confirm button (ExecuteModal.tsx, lines 1127-1177, 671-676).            *)
(***************************************************************************)
TextSdkNotInitialized == <<"S", "D", "K", " ", "n", "o", "t", " ", "i", "n", "i", "t", "i", "a", "l", "i", "z", "e", "d">>
TextNoHash == <<"N", "o", " ", "t", "r", "a", "n", "s", "a", "c", "t", "i", "o", "n", " ", "h", "a", "s", "h", " ", "r", "e", "t", "u", "r", "n", "e", "d">>

\* an AaveDepositResult; NULL is a field left out
DepositResult(success, error, txHash, explorerUrl) ==
    [success |-> success, error |-> error, txHash |-> txHash,
     explorerUrl |-> explorerUrl]

\* Faulty variant of ExecuteCallParams: the receipt is awaited with a timeout
\* of 0, which bounds nothing.
ExecuteCallParamsUnbounded(built, tokenDeets, amountWei) ==
    IF ~amountWei.ok THEN amountWei
    ELSE Return([token          |-> tokenDeets.token.symbol,
                 amount         |-> amountWei.value,
                 toChainId      |-> tokenDeets.chain.id,
                 execute        |-> built,
                 waitForReceipt |-> TRUE,
                 receiptTimeout |-> 0])

\* lines 215-223, with the resolved chain and token and the base-unit amount
ExecuteCallParams(built, tokenDeets, amountWei) ==
    IF ~amountWei.ok THEN amountWei
    ELSE Return([token          |-> tokenDeets.token.symbol,
                 amount         |-> amountWei.value,
                 toChainId      |-> tokenDeets.chain.id,
                 execute        |-> built,
                 waitForReceipt |-> TRUE,
                 receiptTimeout |-> 300000])

\* lines 212-223, with the outcomes of buildExecuteParams and
\* findTokenWithChain
ExecuteWithBuilt(built, tokenDeets, depositAmount) ==
    IF ~built.ok THEN built
    ELSE IF ~tokenDeets.ok THEN tokenDeets
    ELSE ExecuteCallParams(built.value, tokenDeets.value,
             parseUnits(depositAmount, tokenDeets.value.token.decimals))

\* lines 212-223: the params of the execute call, or what building throws
executeParams(walletAddr, catalog, depositAmount, assetAddress, market) ==
    ExecuteWithBuilt(buildExecuteParams(walletAddr, catalog, depositAmount,
                                        assetAddress, market),
                     findTokenWithChain(catalog, assetAddress), depositAmount)

\* Faulty variant of executeDeposit's return: a normal return of the engine
\* is success, with or without a hash.
executeResultTrustingReturn(response) ==
    IF response.ok
    THEN DepositResult(TRUE, NULL, response.value.executeTransactionHash,
                       response.value.executeExplorerUrl)
    ELSE DepositResult(FALSE, parseError(response.error).message, NULL, NULL)

\* lines 227-255: what executeDeposit returns for the engine's answer
executeResult(response) ==
    IF response.ok
    THEN IF Truthy(response.value.executeTransactionHash)
         THEN DepositResult(TRUE, NULL, response.value.executeTransactionHash,
                            response.value.executeExplorerUrl)
         ELSE DepositResult(FALSE, TextNoHash, NULL, NULL)
    ELSE DepositResult(FALSE, parseError(response.error).message, NULL, NULL)

\* lines 586-587
isInsufficientBalance ==
    IF amount # EmptyString /\ walletBalance # EmptyString
    THEN NumGt(Number(amount), TimesNineTenths(Number(walletBalance)))
    ELSE FALSE

\* Faulty variant of the button's disabled: isLoading is not consulted.
ConfirmDisabledIgnoringLoading ==
    \/ amount = EmptyString
    \/ amount = <<"0">>
    \/ isInsufficientBalance
    \/ NumLe(ParseFloat(amount), Dec(0, 0))
    \/ NumGt(ParseFloat(amount), ParseFloat(walletBalance))

\* lines 1160-1167: the confirm button's disabled
ConfirmDisabled ==
    \/ amount = EmptyString
    \/ amount = <<"0">>
    \/ isLoading
    \/ isInsufficientBalance
    \/ NumLe(ParseFloat(amount), Dec(0, 0))
    \/ NumGt(ParseFloat(amount), ParseFloat(walletBalance))

\* lines 1128, 1158: the confirm button is rendered and can be pressed
ConfirmEnabled ==
    /\ FormShown
    /\ ~(isDebouncing \/ isSimulating)
    /\ ~ConfirmDisabled

\* lines 673-675, on successData
handleConfirmResult(result, shown) ==
    IF result.success THEN [explorerUrl |-> result.explorerUrl] ELSE shown

\* lines 208-227 and 250-258, with the params or what building them threw
ExecuteCall(depositAmount, params) ==
    IF params.ok
    THEN /\ Len(execInFlight) < MaxExecInFlight
         /\ isLoading' = TRUE
         /\ execInFlight' = Append(execInFlight,
                [depositAmount |-> depositAmount, params |-> params.value,
                 closed |-> FALSE])
         /\ returned' = None
    ELSE \* catch, finally: setIsLoading(false)
         /\ isLoading' = FALSE
         /\ returned' = [engine |-> None, result |-> executeResult(params)]
         /\ UNCHANGED execInFlight

\* the confirm button is pressed: handleConfirmDeposit and executeDeposit
\* up to its await (lines 204-227)
handleConfirmDeposit ==
    /\ ConfirmEnabled
    /\ IF ~nexusSDK \/ address = NULL
       THEN /\ returned' = [engine |-> None,
                            result |-> DepositResult(FALSE, TextSdkNotInitialized,
                                                     NULL, NULL)]
            /\ UNCHANGED <<isLoading, execInFlight>>
       ELSE ExecuteCall(amount,
                executeParams(address, supportedChainsAndTokens, amount,
                              underlyingAsset, currentMarket))
    /\ successData' = IF returned' = None THEN successData
                      ELSE handleConfirmResult(returned'.result, successData)
    /\ simReturned' = None
    /\ Render(isOpen, isOpen, amount, Refs)
    /\ UNCHANGED <<providers, isOpen, amount, simulation, isSimulating,
                   multiStepResult, simInFlight, simCallLog, superseded,
                   simulatedOk, calc>>

\* Faulty variant of ExecuteSettles: a failed execution is submitted to the
\* engine again.
ExecuteSettlesRetrying(i, response) ==
    /\ i \in 1..Len(execInFlight)
    /\ returned' = [engine |-> response, result |-> executeResult(response)]
    /\ successData' = handleConfirmResult(returned'.result, successData)
    /\ simReturned' = None
    /\ isLoading' = ~returned'.result.success
    /\ execInFlight' = IF returned'.result.success
                       THEN RemoveAt(execInFlight, i)
                       ELSE Append(RemoveAt(execInFlight, i), execInFlight[i])
    /\ Render(isOpen, isOpen, amount, Refs)
    /\ UNCHANGED <<providers, isOpen, amount, simulation, isSimulating,
                   multiStepResult, simInFlight, simCallLog, superseded,
                   simulatedOk, calc>>

\* Faulty variant of ExecuteSettles: isLoading is reset only after a
\* successful execution.
ExecuteSettlesKeepsLoading(i, response) ==
    /\ i \in 1..Len(execInFlight)
    /\ returned' = [engine |-> response, result |-> executeResult(response)]
    /\ successData' = handleConfirmResult(returned'.result, successData)
    /\ simReturned' = None
    /\ isLoading' = (isLoading /\ ~returned'.result.success)
    /\ execInFlight' = RemoveAt(execInFlight, i)
    /\ Render(isOpen, isOpen, amount, Refs)
    /\ UNCHANGED <<providers, isOpen, amount, simulation, isSimulating,
                   multiStepResult, simInFlight, simCallLog, superseded,
                   simulatedOk, calc>>

\* the engine answers an execute call; executeDeposit and then
\* handleConfirmDeposit resume
ExecuteSettles(i, response) ==
    /\ i \in 1..Len(execInFlight)
    /\ returned' = [engine |-> response, result |-> executeResult(response)]
    /\ successData' = handleConfirmResult(returned'.result, successData)
    /\ simReturned' = None
    /\ isLoading' = FALSE
    /\ execInFlight' = RemoveAt(execInFlight, i)
    /\ Render(isOpen, isOpen, amount, Refs)
    /\ UNCHANGED <<providers, isOpen, amount, simulation, isSimulating,
                   multiStepResult, simInFlight, simCallLog, superseded,
                   simulatedOk, calc>>

(***************************************************************************)
(* The specification.                                                      *)
(***************************************************************************)
\* one step of the flow, the user typing one of `values`
NextTyping(values) ==
    \/ handleOpen
    \/ handleClose
    \/ \E value \in values : handleChange(value)
    \/ handleSetMax
    \/ \E t \in timers : TimerExpires(t)
    \/ \E call \in BagToSet(simInFlight) : \E response \in SimResponses :
           SimulateSettles(call, response)
    \/ handleConfirmDeposit
    \/ \E i \in 1..Len(execInFlight) : \E response \in ExecResponses :
           ExecuteSettles(i, response)

Next == NextTyping(InputValues)

Spec == Init /\ [][Next]_vars

\* the flow, with the history of completed simulations
SpecRecording == InitRecording /\ [][Next]_vars

\* the engine answers one of the simulate calls awaited
EngineAnswersSimulate ==
    \E call \in BagToSet(simInFlight) : \E response \in SimResponses :
        SimulateSettles(call, response)

\* the engine answers one of the execute calls awaited
EngineAnswersExecute ==
    \E i \in 1..Len(execInFlight) : \E response \in ExecResponses :
        ExecuteSettles(i, response)

\* what the user types in the runs with a fair engine: the amount "1"
\* is entered by Max
FewInputValues == {EmptyString, <<".">>}

\* the flow with an engine whose every call eventually returns or throws
SpecEngineAnswers ==
    /\ Init
    /\ [][NextTyping(FewInputValues)]_vars
    /\ WF_vars(EngineAnswersSimulate)
    /\ WF_vars(EngineAnswersExecute)


(***************************************************************************)
(* The functions of the hook applied on their own: parseError,             *)
(* findTokenWithChain, and the building of the engine's params by          *)
(* simulateDeposit and executeDeposit.  Init draws an application, the      *)
(* action runs it.                                                         *)
(***************************************************************************)
\* the sequences over S of length at most n
RECURSIVE SeqsUpTo(_, _)
SeqsUpTo(S, n) ==
    IF n = 0 THEN {<<>>}
    ELSE SeqsUpTo(S, n - 1)
         \cup {Append(q, x) : q \in {r \in SeqsUpTo(S, n - 1) : Len(r) = n - 1}, x \in S}

\* pieces of error messages: the signatures parseError looks for, alone or
\* inside a longer text, in another case, and texts with none of them
Fragments ==
    { ErrUserRejected.message, MsgDenied, MsgErrUnknownField, MsgTxParseError,
      MsgBroadcastFailed, MsgInsufficient,
      <<"R", "e", "j", "e", "c", "t", "e", "d">>,
      <<"b", "o", "o", "m">> }

\* the fragments joined by ": "
RECURSIVE JoinFragments(_)
JoinFragments(fs) ==
    IF Len(fs) = 0 THEN EmptyString
    ELSE IF Len(fs) = 1 THEN fs[1]
    ELSE fs[1] \o <<":", " ">> \o JoinFragments(Tail(fs))

\* what may be thrown: an Error with a message, or a value that is not an
\* Error (with or without a message property)
ThrownValues ==
    {ErrorOf(JoinFragments(fs)) : fs \in SeqsUpTo(Fragments, MaxFragments)}
    \cup {NotAnError, [isError |-> FALSE, message |-> MsgRejected]}

\* the tokens of the catalogs tried: the asset as the catalog spells it, and
\* another token spelt in upper case
CatalogTokens ==
    { [contractAddress |-> <<"0", "x", "a", "b">>,
       symbol |-> "USDC", name |-> "USD Coin", decimals |-> 6],
      [contractAddress |-> <<"0", "x", "C", "D">>,
       symbol |-> "USDT", name |-> "Tether USD", decimals |-> 6] }

\* the chain ids of a catalog, by position
ChainIds == <<10, 8453, 42161, 137>>

\* the catalog with these token lists, in this order
CatalogOf(lists) ==
    [chains |-> [c \in 1..Len(lists) |-> [id |-> ChainIds[c], tokens |-> lists[c]]]]

\* the catalogs tried: not loaded, or up to MaxChains chains of up to
\* MaxTokens tokens, the same token on several chains included
Catalogs ==
    {None} \cup {CatalogOf(lists) :
                    lists \in SeqsUpTo(SeqsUpTo(CatalogTokens, MaxTokens), MaxChains)}

\* the addresses resolved: in checksum case, in lower case, absent
Addresses ==
    { underlyingAsset, <<"0", "x", "a", "b">>, <<"0", "x", "c", "d">>,
      <<"0", "x", "e", "e">> }

\* the catalog of one chain whose token for the asset has d decimals
CatalogWithDecimals(d) ==
    CatalogOf(<< << [contractAddress |-> <<"0", "x", "a", "b">>,
                     symbol |-> "USDC", name |-> "USD Coin", decimals |-> d] >> >>)

\* marketsData[market]: the chains the market's pool may be deployed on
MarketChains == {ChainIds[c] : c \in 1..MaxChains}

\* the amount strings converted
AmountStrings == SeqsUpTo({"0", "1", "5", "9", "."}, MaxAmountLen)

\* the applications drawn
Applications ==
    {[fn |-> "parseError", error |-> e] : e \in ThrownValues}
    \cup {[fn |-> "findTokenWithChain", catalog |-> c, address |-> a] :
             c \in Catalogs, a \in Addresses}
    \cup {[fn |-> "params", depositAmount |-> v, decimals |-> d] :
             v \in AmountStrings, d \in 0..MaxDecimals}
    \cup {[fn |-> "destination", catalog |-> c, marketChain |-> m] :
             c \in Catalogs \ {None}, m \in MarketChains}

\* the variables of the flow
flow == <<nexusSDK, address, supportedChainsAndTokens,
          isOpen, amount, successData, isDebouncing,
          amountRef, timerRef, prevSimulationRef,
          isLoading, simulation, isSimulating, multiStepResult,
          timers, simInFlight, execInFlight,
          simCallLog, superseded, returned, simReturned, simulatedOk>>

CalcInit ==
    /\ FlowInit
    /\ nexusSDK
    /\ address = WalletAddress
    /\ supportedChainsAndTokens = SupportedChains
    /\ simulatedOk = NotRecorded
    /\ applied \in Applications
    /\ outcome = None

ApplyParseError ==
    /\ outcome = None
    /\ applied.fn = "parseError"
    /\ outcome' = parseError(applied.error)
    /\ UNCHANGED <<flow, applied>>

ApplyFindTokenWithChain ==
    /\ outcome = None
    /\ applied.fn = "findTokenWithChain"
    /\ outcome' = findTokenWithChain(applied.catalog, applied.address)
    /\ UNCHANGED <<flow, applied>>

\* the params simulateDeposit and executeDeposit build for the engine
ApplyParams ==
    /\ outcome = None
    /\ applied.fn = "params"
    /\ outcome' =
          [simulate |-> simulateParams(address, CatalogWithDecimals(applied.decimals),
                            applied.depositAmount, underlyingAsset, currentMarket),
           execute  |-> executeParams(address, CatalogWithDecimals(applied.decimals),
                            applied.depositAmount, underlyingAsset, currentMarket)]
    /\ UNCHANGED <<flow, applied>>

\* the params built for the asset with the catalog drawn, for a market on
\* the chain drawn
ApplyDestination ==
    /\ outcome = None
    /\ applied.fn = "destination"
    /\ outcome' =
          [simulate |-> simulateParams(address, applied.catalog, walletBalance,
                            underlyingAsset, currentMarket),
           execute  |-> executeParams(address, applied.catalog, walletBalance,
                            underlyingAsset, currentMarket)]
    /\ UNCHANGED <<flow, applied>>

CalcNext ==
    \/ ApplyParseError
    \/ ApplyFindTokenWithChain
    \/ ApplyParams
    \/ ApplyDestination

CalcSpec == CalcInit /\ [][CalcNext]_vars

(***************************************************************************)
(* Steps, as the properties below recognise them.                          *)
(***************************************************************************)
\* the step answers the awaited simulate call `call`
SettlesSimulate(call) ==
    /\ BagIn(call, simInFlight)
    /\ simInFlight' = simInFlight (-) SetToBag({call})

\* the step answers an awaited execute call
SettlesExecute == Len(execInFlight') < Len(execInFlight)

\* the step calls simulateDeposit
CallsSimulateDeposit == Len(simCallLog') > Len(simCallLog)

\* the step starts executeDeposit, which calls the engine
StartsExecution == Len(execInFlight') > Len(execInFlight)

\* the amount is a positive number
IsPositiveAmount(str) == ~ParseFloat(str).nan /\ ParseFloat(str).num > 0

(***************************************************************************)
(* Properties.                                                             *)
(***************************************************************************)

\* C1: in the open flow, the result of a simulate call launched for an
\* amount other than the one now displayed is not applied when it arrives:
\* simulation and multiStepResult stay as they were.
C1_StaleResultDiscarded ==
    [][\A call \in BagToSet(simInFlight) :
          (SettlesSimulate(call) /\ isOpen /\ call.depositAmount # amount)
              => (simulation' = simulation /\ multiStepResult' = multiStepResult)]_vars

\* C2 as stated: after any change of the amount in the open flow, once no
\* timer is pending exactly one simulateDeposit call has been made for the
\* last value.
C2_ExactlyOneCall ==
    (isOpen /\ amount # EmptyString /\ timers = {}) => simCallLog = <<amount>>

\* C2 as amended: a change of the amount cancels the pending timer, so at
\* most one timer is pending and it is for the last value; at most one
\* simulateDeposit call is made after the last change, and for the last
\* value; a last value that is non-empty, not "0" and not the amount last
\* simulated has its timer pending until the call; an empty or "0" value has
\* no timer and no call.
C2_LastValueWins ==
    /\ Cardinality(timers) <= 1
    /\ \A t \in timers : t.amount = amount /\ t.isOpen /\ isOpen
    /\ Len(simCallLog) <= 1
    /\ \A i \in 1..Len(simCallLog) : simCallLog[i] = amount
    /\ (isOpen /\ amount # EmptyString /\ amount # <<"0">> /\ prevSimulationRef # amount)
           => (timers # {} /\ simCallLog = <<>>)
    /\ (amount = EmptyString \/ amount = <<"0">>)
           => (timers = {} /\ simCallLog = <<>>)

\* C2 witness: a change replaced a value whose timer was pending, and the
\* one call made since is for the last value.
C2_Witness == isOpen /\ superseded /\ simCallLog = <<amount>>

\* C3: closing the flow leaves no timer pending, and simulateDeposit is
\* called only in the open flow, for the non-empty amount then displayed.
C3_CloseCancelsTimer ==
    [][/\ ~isOpen' => timers' = {}
       /\ CallsSimulateDeposit =>
              /\ isOpen /\ isOpen'
              /\ amount # EmptyString
              /\ simCallLog'[Len(simCallLog')] = amount]_vars

\* C3 witness: the flow was closed while a timer was pending.
C3_Witness == ~isOpen /\ superseded /\ timers = {}

\* C4: right after handleClose the summary and multiStepResult are unset.
C4_CloseClearsSimulation ==
    [][(isOpen /\ ~isOpen') => (simulation' = None /\ multiStepResult' = None)]_vars

\* C5: the result of a call that was in flight when the flow closed changes
\* no display state when it arrives, and reopening shows the input form
\* with no summary.
C5_ClosedResultsDiscarded ==
    [][/\ \A call \in BagToSet(simInFlight) :
              (SettlesSimulate(call) /\ ~isOpen)
                  => (simulation' = simulation /\ multiStepResult' = multiStepResult)
       /\ (SettlesExecute /\ execInFlight[1].closed) => successData' = successData
       /\ (~isOpen /\ isOpen')
              => (successData' = None /\ simulation' = None /\ multiStepResult' = None)]_vars

\* C6: at most one engine simulate call is outstanding.
C6_OneSimulationInFlight == BagCardinality(simInFlight) <= 1

\* C7: at most one engine execute call is outstanding: while one is, the
\* flow is loading and the confirm button cannot be pressed.
C7_SingleFlightExecute ==
    /\ Len(execInFlight) <= 1
    /\ execInFlight # <<>> => (isLoading /\ ~ConfirmEnabled)

\* C7 witness: an execution outlived a close and a reopen, and the button is
\* rendered for an amount it would accept, disabled by isLoading alone.
C7_Witness ==
    /\ Len(execInFlight) = 1
    /\ execInFlight[1].closed
    /\ FormShown
    /\ ~(isDebouncing \/ isSimulating)
    /\ IsPositiveAmount(amount)
    /\ ~isInsufficientBalance

\* the engine's bridgeAndExecute returned normally, without a hash
ReturnedWithoutHash ==
    /\ returned # None
    /\ returned.engine # None
    /\ returned.engine.ok
    /\ ~Truthy(returned.engine.value.executeTransactionHash)

\* C8: when bridgeAndExecute returns without executeTransactionHash,
\* executeDeposit returns success = false with no txHash, the done state is
\* not entered and isLoading is cleared.
C8_NoHashIsFailure ==
    ReturnedWithoutHash =>
        /\ ~returned.result.success
        /\ returned.result.txHash = NULL
        /\ successData = None
        /\ ~isLoading

\* C8 witness: bridgeAndExecute has just returned without a hash.
C8_Witness == ReturnedWithoutHash /\ isOpen

\* C9: an execution is started only for an amount that is a positive
\* number within the allowed fraction of the balance, and with no
\* execution in flight.
C9_ConfirmOnlyValid ==
    [][StartsExecution =>
          /\ IsPositiveAmount(amount)
          /\ ~NumGt(Number(amount), TimesNineTenths(Number(walletBalance)))
          /\ ~isLoading
          /\ execInFlight = <<>>]_vars

\* C10: successData is set only when an executeDeposit call of the flow
\* still open returns success with the engine's transaction hash, and holds
\* that call's explorerUrl.
C10_DoneOnlyOnSuccess ==
    [][(successData' # None /\ successData' # successData) =>
          /\ SettlesExecute
          /\ ~execInFlight[1].closed
          /\ returned' # None
          /\ returned'.engine # None
          /\ returned'.engine.ok
          /\ Truthy(returned'.engine.value.executeTransactionHash)
          /\ returned'.result.success
          /\ returned'.result.txHash = returned'.engine.value.executeTransactionHash
          /\ successData'.explorerUrl = returned'.engine.value.executeExplorerUrl]_vars


\* the step ran executeDeposit to a return without an engine call
ReturnsBeforeEngine == returned' # None /\ returned'.engine = None

\* C15: with the catalog not loaded, findTokenWithChain throws the
\* catalog error; a simulateDeposit or executeDeposit started then calls no
\* engine, sets no summary, returns success = false (execute) and leaves its
\* in-progress flag cleared.
C15_CatalogUnavailable ==
    [][supportedChainsAndTokens = None =>
          /\ ~findTokenWithChain(supportedChainsAndTokens, underlyingAsset).ok
          /\ findTokenWithChain(supportedChainsAndTokens, underlyingAsset).error
                = ErrCatalogNotLoaded
          /\ simInFlight' = simInFlight
          /\ execInFlight' = execInFlight
          /\ CallsSimulateDeposit => (simulation' = simulation /\ ~isSimulating')
          /\ ReturnsBeforeEngine => (~returned'.result.success /\ ~isLoading')]_vars

\* C15 witness: with the SDK and the wallet ready and no catalog,
\* simulateDeposit was called and executeDeposit has just returned the
\* catalog error.
C15_Witness ==
    /\ supportedChainsAndTokens = None
    /\ nexusSDK
    /\ address # NULL
    /\ simCallLog # <<>>
    /\ returned # None
    /\ returned.result.error = ErrCatalogNotLoaded.message

\* C16: with no wallet connected, buildExecuteParams throws the wallet
\* error; simulateDeposit and executeDeposit call no engine and leave the
\* summary, multiStepResult, isLoading and isSimulating as they were, and
\* executeDeposit returns success = false.
C16_WalletNotConnected ==
    [][address = NULL =>
          /\ ~buildExecuteParams(address, supportedChainsAndTokens, amount,
                                 underlyingAsset, currentMarket).ok
          /\ buildExecuteParams(address, supportedChainsAndTokens, amount,
                                underlyingAsset, currentMarket).error
                = ErrWalletNotConnected
          /\ simInFlight' = simInFlight
          /\ execInFlight' = execInFlight
          /\ (CallsSimulateDeposit \/ ReturnsBeforeEngine)
                => UNCHANGED <<simulation, multiStepResult, isLoading, isSimulating>>
          /\ ReturnsBeforeEngine => ~returned'.result.success]_vars

\* C16 witness: with no wallet, simulateDeposit was called and
\* executeDeposit has just returned.
C16_Witness ==
    /\ address = NULL
    /\ simCallLog # <<>>
    /\ returned # None
    /\ ~returned.result.success

\* C19 (checked with the history recorded): prevSimulationRef holds an
\* amount only if a simulation for that amount has completed successfully
\* in the current open flow.
C19_MarkerOnlySuccessful ==
    prevSimulationRef # NULL => prevSimulationRef \in simulatedOk

\* the simulate calls awaited after the step that were not before it
Launched ==
    {c \in BagToSet(simInFlight') : CopiesIn(c, simInFlight') > CopiesIn(c, simInFlight)}

\* C20: every simulateDeposit call is made by the expiry of a timer, in the
\* open flow, while the amount displayed is the one the timer was armed
\* with, and the simulation is launched for that amount.
C20_StaleTimersDiscarded ==
    [][CallsSimulateDeposit =>
          \E t \in timers :
              /\ t \notin timers'
              /\ isOpen /\ isOpen'
              /\ amount' = amount
              /\ t.amount = amount
              /\ simCallLog' = Append(simCallLog, t.amount)
              /\ \A c \in Launched : c.depositAmount = t.amount]_vars

\* C20 witness: the timer of the displayed amount has expired and its
\* simulation is awaited.
C20_Witness ==
    /\ isOpen
    /\ timers = {}
    /\ simCallLog = <<amount>>
    /\ isSimulating
    /\ \E c \in BagToSet(simInFlight) : c.depositAmount = amount

\* simulateDeposit returned false in the step
SimulationFailed == simReturned' # None /\ ~simReturned'.value

\* C21: after a simulateDeposit that failed (it threw, building threw, or
\* the result has no executeSimulation) the summary is unset and nothing of
\* the failed result is stored, multiStepResult included.
C21_FailureStoresNothing ==
    [][SimulationFailed =>
          /\ simulation' = None
          /\ multiStepResult' = multiStepResult]_vars

\* C22: when the user changes the amount from the one a summary is held
\* for, the summary is dropped; and the confirm button is never enabled for an amount
\* while a summary for another amount is held.
C22_AmountChangeClearsSummary ==
    [][/\ (/\ simulation # None
           /\ simulation.destinationAmount = amount
           /\ isOpen /\ isOpen'
           /\ amount' # amount)
          => simulation' = None
       /\ (ConfirmEnabled /\ simulation # None)
          => simulation.destinationAmount = amount]_vars

\* executeDeposit has just returned from its catch block: the engine call
\* threw, or building the params did
CaughtInExecute ==
    /\ returned # None
    /\ \/ returned.engine # None /\ ~returned.engine.ok
       \/ returned.engine = None /\ nexusSDK /\ address # NULL

\* the value thrown
ThrownInExecute ==
    IF returned.engine # None
    THEN returned.engine.error
    ELSE executeParams(address, supportedChainsAndTokens, amount,
                       underlyingAsset, currentMarket).error

\* C23: when bridgeAndExecute or the building before it throws,
\* executeDeposit returns success = false with the kind and the message
\* parseError gives for the thrown value.
C23_FailureCarriesKindAndMessage ==
    CaughtInExecute =>
        /\ ~returned.result.success
        /\ returned.result.error = parseError(ThrownInExecute).message
        /\ "errorKind" \in DOMAIN returned.result
        /\ returned.result.errorKind = parseError(ThrownInExecute).type

\* the step resumes executeDeposit with the engine's answer, and it returns
ExecutionReturns == returned' # None /\ returned'.engine # None

\* C24: no automatic retries.  A step submits at most one bridgeAndExecute
\* call, and only as the confirm button is pressed; the step in which
\* executeDeposit returns, failed or not, ends its call and submits none.
C24_NoAutomaticRetries ==
    [][/\ Len(execInFlight') <= Len(execInFlight) + 1
       /\ StartsExecution => ConfirmEnabled /\ ~ExecutionReturns
       /\ ExecutionReturns => Len(execInFlight') = Len(execInFlight) - 1]_vars

\* a failed execution has returned and nothing is submitted to the engine
C24_Witness ==
    /\ returned # None
    /\ returned.engine # None
    /\ ~returned.result.success
    /\ execInFlight = <<>>

\* the amount passes the confirm button's checks of the amount
AmountStillValid ==
    /\ amount # EmptyString
    /\ amount # <<"0">>
    /\ ~isInsufficientBalance
    /\ ~NumLe(ParseFloat(amount), Dec(0, 0))
    /\ ~NumGt(ParseFloat(amount), ParseFloat(walletBalance))

NoBridgeNeeded ==
    /\ simReturned # None
    /\ simReturned.engine # None
    /\ simReturned.engine.ok
    /\ simReturned.engine.value.executeSimulation # None
    /\ simReturned.engine.value.bridgeSimulation = None

\* C26: an engine result with an executeSimulation and no bridgeSimulation
\* is a success: simulateDeposit returns true and has set the summary of
\* that result, with bridge fee 0 and the gas cost as the total cost.
C26_NoBridgeIsSuccess ==
    NoBridgeNeeded =>
        /\ simReturned.value
        /\ simulation # None
        /\ simulation.simulation.executeSimulation
              = simReturned.engine.value.executeSimulation
        /\ simulation.simulation.bridgeSimulation = None
        /\ simulation.bridgeFee = 0
        /\ simulation.gasUsd > 0
        /\ simulation.totalCost = NatToString(simulation.gasUsd)

\* simulateDeposit returned true for a result without a bridging leg
C26_Witness == NoBridgeNeeded /\ simReturned.value /\ simulation # None

\* C27: every bridgeAndExecute call executeDeposit submits asks the engine
\* to wait for the receipt, for a finite and positive time.
C27_ReceiptWaitIsBounded ==
    \A i \in 1..Len(execInFlight) :
        /\ execInFlight[i].params.waitForReceipt = TRUE
        /\ execInFlight[i].params.receiptTimeout \in Nat
        /\ execInFlight[i].params.receiptTimeout > 0

\* a call is with the engine, waiting for the receipt
C27_Witness ==
    /\ execInFlight # <<>>
    /\ execInFlight[1].params.waitForReceipt
    /\ ~execInFlight[1].closed

\* C28: the summary and multiStepResult share one lifecycle: both unset, or
\* both set with multiStepResult the engine result the summary was made of.
C28_SummaryAndResultTogether ==
    /\ (simulation = None) <=> (multiStepResult = None)
    /\ simulation # None => multiStepResult = simulation.simulation

\* C30: the debouncing indicator never gets stuck: while isDebouncing is
\* set, a timer is pending whose callback will call simulateDeposit.
C30_DebouncingHasTimer ==
    isDebouncing => \E t \in timers : TimerCallbackRuns(t)

\* C31: isSimulating is accurate: it is set exactly while an engine
\* simulate call started by simulateDeposit has not resolved.
C31_SimulatingFlagAccurate ==
    isSimulating <=> simInFlight # EmptyBag

\* C32 (with an engine that answers every call): the in-progress flags are
\* released.  isSimulating and isLoading, once set, are eventually false
\* again, and the step in which simulateDeposit or executeDeposit resumes
\* from its await resets its flag whatever the engine answered.
C32_FlagsReleased ==
    /\ isSimulating ~> ~isSimulating
    /\ isLoading ~> ~isLoading
    /\ [][/\ (\E call \in BagToSet(simInFlight) : SettlesSimulate(call))
                => ~isSimulating'
          /\ SettlesExecute => ~isLoading']_vars

\* C32 witness: the engine threw in a simulation, and the flag is released
C32_Witness ==
    /\ simReturned # None
    /\ simReturned.engine # None
    /\ ~simReturned.engine.ok
    /\ ~isSimulating

\* C33: an execution is never started while the quote is being refreshed:
\* in the step that starts executeDeposit no debounce timer is pending and
\* no engine simulate call is awaited.
C33_NoExecuteWhileRefreshing ==
    [][(StartsExecution \/ ReturnsBeforeEngine) =>
          /\ timers = {}
          /\ simInFlight = EmptyBag]_vars

\* C34: the done screen reports the executed amount: as the done state is
\* entered, the amount it shows is the one submitted in the executeDeposit
\* call that succeeded (in the flow that stayed open since the confirm).
C34_DoneShowsExecutedAmount ==
    [][(/\ SettlesExecute
        /\ isOpen /\ ~execInFlight[1].closed
        /\ successData' # None /\ successData' # successData)
          => successAmountShown' = execInFlight[1].depositAmount]_vars

\* C35: the engine is never asked to move a zero amount: every simulate
\* and execute call awaited carries a base-unit amount greater than 0.
C35_NoZeroAmountToEngine ==
    /\ \A call \in BagToSet(simInFlight) : call.params.amount > 0
    /\ \A i \in 1..Len(execInFlight) : execInFlight[i].params.amount > 0

(***************************************************************************)
(* Properties of the functions applied on their own (CalcSpec).            *)
(***************************************************************************)
\* parseError was applied to a thrown Error
ParsedAnError ==
    /\ applied # None
    /\ applied.fn = "parseError"
    /\ outcome # None
    /\ applied.error.isError

\* the signature sets a message matches
HasRejectSignature(m) == Includes(m, MsgRejected) \/ Includes(m, MsgDenied)

HasEngineSignature(m) ==
    \/ Includes(m, MsgErrUnknownField)
    \/ Includes(m, MsgTxParseError)
    \/ Includes(m, MsgBroadcastFailed)

HasInsufficientSignature(m) == Includes(m, MsgInsufficient)

\* C11: parseError classifies by priority Rejected > EngineError >
\* InsufficientFunds > General: of the signature sets the message of an
\* Error matches, the kind returned is that of the highest one; a message
\* with a reject signature is Rejected whatever else it matches.
C11_PriorityOrder ==
    ParsedAnError =>
        /\ HasRejectSignature(applied.error.message) => outcome.type = "REJECTED"
        /\ (/\ ~HasRejectSignature(applied.error.message)
            /\ HasEngineSignature(applied.error.message))
              => outcome.type = "SDK_ERROR"
        /\ (/\ ~HasRejectSignature(applied.error.message)
            /\ ~HasEngineSignature(applied.error.message)
            /\ HasInsufficientSignature(applied.error.message))
              => outcome.type = "INSUFFICIENT"
        /\ (/\ ~HasRejectSignature(applied.error.message)
            /\ ~HasEngineSignature(applied.error.message)
            /\ ~HasInsufficientSignature(applied.error.message))
              => outcome.type = "GENERAL"

\* a message matching a reject signature and the two other sets was parsed
C11_Witness ==
    /\ ParsedAnError
    /\ HasRejectSignature(applied.error.message)
    /\ \/ HasEngineSignature(applied.error.message)
       \/ HasInsufficientSignature(applied.error.message)
    /\ outcome.type = "REJECTED"

\* parseError was applied
Parsed == applied # None /\ applied.fn = "parseError" /\ outcome # None

\* C12 (as claimed): "user rejected" in the message gives Rejected;
\* "insufficient" without a higher signature InsufficientFunds; "tx parse
\* error" in the message gives EngineError; any other message General with
\* the message verbatim; a value that is not an Error Unknown; the kind is
\* always one of the five.
C12_ClosedTaxonomy ==
    Parsed =>
        /\ outcome.type \in {"REJECTED", "SDK_ERROR", "INSUFFICIENT", "GENERAL", "UNKNOWN"}
        /\ ~applied.error.isError => outcome.type = "UNKNOWN"
        /\ applied.error.isError =>
             /\ Includes(applied.error.message, ErrUserRejected.message)
                   => outcome.type = "REJECTED"
             /\ Includes(applied.error.message, MsgTxParseError)
                   => outcome.type = "SDK_ERROR"
             /\ (/\ Includes(applied.error.message, MsgInsufficient)
                 /\ ~HasRejectSignature(applied.error.message)
                 /\ ~HasEngineSignature(applied.error.message))
                   => outcome.type = "INSUFFICIENT"
             /\ (/\ ~HasRejectSignature(applied.error.message)
                 /\ ~HasEngineSignature(applied.error.message)
                 /\ ~HasInsufficientSignature(applied.error.message))
                   => /\ outcome.type = "GENERAL"
                      /\ outcome.message = applied.error.message

\* C12 (amended): the same, with "tx parse error" giving EngineError when the
\* message has no reject signature.
C12_ClosedTaxonomyByPriority ==
    Parsed =>
        /\ outcome.type \in {"REJECTED", "SDK_ERROR", "INSUFFICIENT", "GENERAL", "UNKNOWN"}
        /\ ~applied.error.isError => outcome.type = "UNKNOWN"
        /\ applied.error.isError =>
             /\ Includes(applied.error.message, ErrUserRejected.message)
                   => outcome.type = "REJECTED"
             /\ (/\ Includes(applied.error.message, MsgTxParseError)
                 /\ ~HasRejectSignature(applied.error.message))
                   => outcome.type = "SDK_ERROR"
             /\ (/\ Includes(applied.error.message, MsgInsufficient)
                 /\ ~HasRejectSignature(applied.error.message)
                 /\ ~HasEngineSignature(applied.error.message))
                   => outcome.type = "INSUFFICIENT"
             /\ (/\ ~HasRejectSignature(applied.error.message)
                 /\ ~HasEngineSignature(applied.error.message)
                 /\ ~HasInsufficientSignature(applied.error.message))
                   => /\ outcome.type = "GENERAL"
                      /\ outcome.message = applied.error.message

\* an Error with a message of no signature was parsed, and a value that is
\* not an Error can be
C12_Witness ==
    /\ ParsedAnError
    /\ applied.error.message # EmptyString
    /\ outcome.type = "GENERAL"
    /\ outcome.message = applied.error.message

\* findTokenWithChain was applied with a loaded catalog
Resolved ==
    /\ applied # None
    /\ applied.fn = "findTokenWithChain"
    /\ outcome # None
    /\ applied.catalog # None

\* the addresses are equal ignoring case
SameAddress(a, b) == ToLowerCase(a) = ToLowerCase(b)

\* the chains of the catalog whose token list contains the address
ChainsListing(catalog, addr) ==
    {c \in 1..Len(catalog.chains) :
        \E t \in 1..Len(catalog.chains[c].tokens) :
            SameAddress(catalog.chains[c].tokens[t].contractAddress, addr)}

\* C13: if some chain of the catalog lists the address, ignoring case,
\* findTokenWithChain returns a chain of the catalog and a token of that
\* chain whose address is the input ignoring case; if none does, it throws
\* the not-found error and returns no pair.
C13_ResolveFindsListedToken ==
    Resolved =>
        IF ChainsListing(applied.catalog, applied.address) # {}
        THEN /\ outcome.ok
             /\ \E c \in 1..Len(applied.catalog.chains) :
                   /\ outcome.value.chain = applied.catalog.chains[c]
                   /\ \E t \in 1..Len(applied.catalog.chains[c].tokens) :
                         outcome.value.token = applied.catalog.chains[c].tokens[t]
             /\ SameAddress(outcome.value.token.contractAddress, applied.address)
        ELSE /\ ~outcome.ok
             /\ outcome.error = ErrTokenNotFound

\* an address spelt otherwise than the catalog spells it was resolved
C13_Witness ==
    /\ Resolved
    /\ outcome.ok
    /\ outcome.value.token.contractAddress # applied.address
    /\ SameAddress(outcome.value.token.contractAddress, applied.address)

\* C14: an address that two or more chains of the catalog list makes
\* findTokenWithChain fail, instead of returning one of the pairs.
C14_AmbiguityIsAnError ==
    (Resolved /\ Cardinality(ChainsListing(applied.catalog, applied.address)) >= 2)
        => ~outcome.ok

\* the engine's params were built for a well-formed amount string
ParamsBuilt ==
    /\ applied # None
    /\ applied.fn = "params"
    /\ outcome # None
    /\ IsDecimalInput(applied.depositAmount)

\* the digits of an amount string before and after its point
IntegerDigits(v) == SubSeq(v, 1, DigitPrefixLen(v))

FractionDigits(v) ==
    IF DigitPrefixLen(v) = Len(v) THEN <<>>
    ELSE SubSeq(v, DigitPrefixLen(v) + 2, Len(v))

\* the amount with its fraction cut to the first d digits, in base units
TruncatedUnits(v, d) ==
    DigitsValue(IntegerDigits(v)
                  \o SubSeq(FractionDigits(v), 1,
                            IF Len(FractionDigits(v)) < d
                            THEN Len(FractionDigits(v)) ELSE d))
        * Pow10(IF Len(FractionDigits(v)) < d THEN d - Len(FractionDigits(v)) ELSE 0)

\* every base-unit amount of the params built is n
AllAmountsAre(n) ==
    /\ outcome.simulate.ok
    /\ outcome.execute.ok
    /\ outcome.simulate.value.amount = n
    /\ outcome.simulate.value.execute.tokenApproval.amount = n
    /\ outcome.simulate.value.execute.data.args[2] = n
    /\ outcome.execute.value.amount = n
    /\ outcome.execute.value.execute.tokenApproval.amount = n
    /\ outcome.execute.value.execute.data.args[2] = n

\* C17: for an amount with more fractional digits than the token's
\* decimals d, the base-unit integer of the call, the approval and the
\* engine params is the amount with its fraction cut to d digits.
C17_ConversionTruncates ==
    (ParamsBuilt /\ Len(FractionDigits(applied.depositAmount)) > applied.decimals)
        => AllAmountsAre(TruncatedUnits(applied.depositAmount, applied.decimals))

\* a = b on JavaScript numbers that are not NaN
NumEq(a, b) ==
    /\ ~a.nan
    /\ ~b.nan
    /\ a.num * Pow10(b.exp) = b.num * Pow10(a.exp)

\* s.padStart(w, '0')
RECURSIVE PadStartZeros(_, _)
PadStartZeros(s, w) == IF Len(s) >= w THEN s ELSE PadStartZeros(<<"0">> \o s, w)

\* the integer and the fraction of viem's formatUnits, joined
JoinUnits(integer, fraction) ==
    (IF integer = <<>> THEN <<"0">> ELSE integer)
        \o (IF fraction = <<>> THEN <<>> ELSE <<".">> \o fraction)

\* viem's formatUnits on the digits of the value, padded to d
FormatDigits(digits, d) ==
    JoinUnits(SubSeq(digits, 1, Len(digits) - d),
              TrimTrailingZeros(SubSeq(digits, Len(digits) - d + 1, Len(digits))))

\* viem's formatUnits(value, decimals) of a non-negative value
formatUnits(n, d) == FormatDigits(PadStartZeros(NatToString(n), d), d)

\* C18: for a positive amount with at most d fractional digits, the base
\* units formatted back with d decimals are the same number as the amount.
C18_ConversionRoundTrips ==
    (/\ ParamsBuilt
     /\ IsPositiveAmount(applied.depositAmount)
     /\ Len(FractionDigits(applied.depositAmount)) <= applied.decimals)
        => /\ outcome.simulate.ok
           /\ outcome.execute.ok
           /\ NumEq(ParseFloat(formatUnits(outcome.simulate.value.amount,
                                           applied.decimals)),
                    ParseFloat(applied.depositAmount))
           /\ AllAmountsAre(outcome.simulate.value.amount)

\* C18 witness: an amount with a fraction shorter than the decimals, and one
\* without integer digits, was converted.
C18_Witness ==
    /\ ParamsBuilt
    /\ IsPositiveAmount(applied.depositAmount)
    /\ FractionDigits(applied.depositAmount) # <<>>
    /\ Len(FractionDigits(applied.depositAmount)) < applied.decimals
    /\ outcome.simulate.ok
    /\ outcome.simulate.value.amount > 0

\* n is the amount string in base units of d decimals: exactly when its
\* fraction fits, and else within the last unit of its first d digits
IsBaseUnitsOf(n, v, d) ==
    /\ n \in Nat
    /\ IF Len(FractionDigits(v)) <= d
       THEN n = TruncatedUnits(v, d)
       ELSE n \in {TruncatedUnits(v, d), TruncatedUnits(v, d) + 1}

\* the params object p agrees with itself and with what was asked
ConsistentParams(p, token) ==
    /\ IsBaseUnitsOf(p.amount, applied.depositAmount, token.decimals)
    /\ p.execute.data.functionName = "supply"
    /\ p.execute.data.args[2] = p.amount
    /\ p.execute.tokenApproval.amount = p.amount
    /\ p.execute.to = LendingPool(currentMarket)
    /\ p.execute.tokenApproval.spender = LendingPool(currentMarket)
    /\ p.execute.data.args[1] = underlyingAsset
    /\ p.execute.data.args[3] = address
    /\ p.execute.value = 0
    /\ p.token = token.symbol
    /\ p.execute.tokenApproval.token = token.symbol

\* C29: the params sent to the engine, for simulate and for execute, are
\* consistent: params.amount, the supply call's amount and the approval's
\* amount are one base-unit integer of the deposit amount; the call's target
\* and the approval's spender are the market's pool; the supply call's asset
\* is the requested asset and onBehalfOf the connected wallet; the native
\* value is 0; params.token and the approval's token are the resolved
\* token's symbol.
C29_ParamsConsistent ==
    ParamsBuilt =>
        /\ outcome.simulate.ok =>
              ConsistentParams(outcome.simulate.value,
                  CatalogWithDecimals(applied.decimals).chains[1].tokens[1])
        /\ outcome.execute.ok =>
              ConsistentParams(outcome.execute.value,
                  CatalogWithDecimals(applied.decimals).chains[1].tokens[1])

\* C29 witness: both params objects were built, for an amount with an
\* integer part and a fraction.
C29_Witness ==
    /\ ParamsBuilt
    /\ outcome.simulate.ok
    /\ outcome.execute.ok
    /\ outcome.execute.value.execute.tokenApproval.amount > 0
    /\ IntegerDigits(applied.depositAmount) # <<>>
    /\ FractionDigits(applied.depositAmount) # <<>>

\* the params were built for a market whose chain lists the asset in the
\* catalog
DestinationBuilt ==
    /\ applied # None
    /\ applied.fn = "destination"
    /\ outcome # None
    /\ \E c \in ChainsListing(applied.catalog, underlyingAsset) :
           applied.catalog.chains[c].id = applied.marketChain

\* C36: the destination chain sent to the engine is the chain of the
\* market's pool, the target of the call and spender of the approval, and
\* never another chain that lists the same token address.
C36_DestinationIsMarketChain ==
    DestinationBuilt =>
        /\ outcome.simulate.ok
        /\ outcome.simulate.value.execute.to = LendingPool(currentMarket)
        /\ outcome.simulate.value.toChainId = applied.marketChain
        /\ outcome.execute.ok
        /\ outcome.execute.value.execute.to = LendingPool(currentMarket)
        /\ outcome.execute.value.toChainId = applied.marketChain

=============================================================================
